---- MODULE Spec2Model ----
(***************************************************************************)
(* State-machine model of the AgentWallet browser client: the two zustand  *)
(* stores (chatStore.js, walletStore.js), the ChatInput submit handler,    *)
(* and the App orchestrator (the mount effect fetchWallet and the async    *)
(* handleSend), with the backend gateway (utils/api.js) as the environment *)
(* that resolves or rejects each call in flight.                           *)
(***************************************************************************)
EXTENDS Integers, Sequences, FiniteSets, TLC

VARIABLES
    chatStore,    \* useChatStore state: [messages, isLoading]
    walletStore,  \* useWalletStore state: [wallet, isLoading]
    fetchWallet,  \* position of the mount effect's fetchWallet()
    handleSend,   \* handleSend invocations suspended at `await sendMessage`
    sendCalls,    \* number of sendMessage calls made so far
    firstDone,    \* which of two overlapping calls completed first with a wallet
    ev,           \* the last handler step that ran, with its input / payload
    localStorage, \* the item stored under SESSION_KEY
    sessionId,    \* the value the last getSessionId() call returned
    returned,     \* the values getSessionId() returned since the last clearSession()
    removed,      \* the item the last clearSession() removed
    requests      \* the bodies posted to /chat so far, in call order

sessionVars == <<localStorage, sessionId, returned, removed>>

vars == <<chatStore, walletStore, fetchWallet, handleSend, sendCalls, firstDone, ev,
          localStorage, sessionId, returned, removed, requests>>

----------------------------------------------------------------------------
(* Bounds *)

MaxSends == 2       \* accepted submissions per behaviour
MaxLog == 2         \* messages appended by a direct caller of the chat store
MaxRun == 66        \* hex characters after `0x` in a formatted text

----------------------------------------------------------------------------
(* Values *)

\* walletStore.js:4 -- `wallet: null`; also an absent `wallet` key in a payload
Null == [null |-> TRUE]

Addresses == {"0xAAAA", "0xBBBB"}
Networks == {"base-sepolia", "base-mainnet"}

\* WalletRecord { address, network } as delivered by the backend
Wallets == [address : Addresses, network : Networks]

WalletOrNull == Wallets \cup {Null}

\* texts are sequences of characters, so that trim() is computed;
\* the characters String.prototype.trim strips (Shift+Enter types a line break)
Whitespace == {" ", "\n"}

Responses == {"hello", "done"}

\* App.jsx:55 -- the fixed error text of the catch branch
ErrorContent == "Error: Failed to process your message. Please try again."

\* what the textarea can hold when a submit event fires (ChatInput.jsx:4,20):
\* empty, blank, bare text, and text with leading, trailing or inner whitespace
Inputs ==
    { <<>>, <<" ">>, <<"\n">>, <<"a">>, <<" ", "a">>, <<"a", "\n">>,
      <<" ", "a", " ">>, <<"a", " ", "a">> }

----------------------------------------------------------------------------
(* String.prototype.trim, as ChatInput.jsx:8-9 applies it *)

RECURSIVE trimStart(_)
trimStart(s) ==
    IF s = <<>> THEN <<>>
    ELSE IF Head(s) \in Whitespace THEN trimStart(Tail(s))
    ELSE s

RECURSIVE trimEnd(_)
trimEnd(s) ==
    IF s = <<>> THEN <<>>
    ELSE IF s[Len(s)] \in Whitespace THEN trimEnd(SubSeq(s, 1, Len(s) - 1))
    ELSE s

\* a trim that strips leading whitespace only
trimLeadingOnly(s) == trimStart(s)

trim(s) == trimEnd(trimStart(s))

----------------------------------------------------------------------------
(* Session identity: utils/session.js *)

\* localStorage.getItem of a key that is not stored returns null
NoItem == <<>>

\* readings of Date.now() and of Math.random().toString(36).substr(2, 9)
Clock == {1, 2}
Random == {"k3j9", "x7q2"}

\* session.js:7 -- `session_${Date.now()}_${random}`
newSessionId(now, random) == <<"session", now, random>>

SessionIds == {newSessionId(now, random) : now \in Clock, random \in Random}

isMissingAlways(stored) == TRUE

\* session.js:6 -- `!sessionId`
isMissing(stored) == stored = NoItem

setItemDropped(storage, value) == storage

\* session.js:8 -- localStorage.setItem(SESSION_KEY, sessionId)
setItem(storage, value) == value

\* session.js:15 -- localStorage.removeItem(SESSION_KEY)
removeItem(storage) == NoItem

\* session.js:3-12 -- the clock and the random source are read only when
\* nothing is stored
getSessionId ==
    /\ IF ~isMissing(localStorage)
       THEN /\ sessionId' = localStorage
            /\ localStorage' = localStorage
       ELSE \E now \in Clock, random \in Random :
                /\ sessionId' = newSessionId(now, random)
                /\ localStorage' = setItem(localStorage, newSessionId(now, random))
    /\ returned' = returned \cup {sessionId'}
    /\ UNCHANGED removed

\* session.js:14-16
clearSession ==
    /\ localStorage' = removeItem(localStorage)
    /\ removed' = IF localStorage # NoItem THEN localStorage ELSE removed
    /\ returned' = {}
    /\ UNCHANGED sessionId

\* App.jsx:12 -- every render of App calls getSessionId()
render == getSessionId

----------------------------------------------------------------------------
(* chatStore.js *)

addMessagePrepends(state, message) ==
    [state EXCEPT !.messages = <<message>> \o @]

\* an append that skips a message the log already has
addMessageDedups(state, message) ==
    IF \E i \in DOMAIN state.messages : state.messages[i] = message
    THEN state
    ELSE [state EXCEPT !.messages = Append(@, message)]

\* chatStore.js:7-9
addMessage(state, message) ==
    [state EXCEPT !.messages = Append(@, message)]

\* a setter that can only raise the flag
setLoadingSticky(state, loading) ==
    [state EXCEPT !.isLoading = @ \/ loading]

\* chatStore.js:11
setLoading(state, loading) ==
    [state EXCEPT !.isLoading = loading]

clearMessagesResets(state) ==
    [state EXCEPT !.messages = <<>>, !.isLoading = FALSE]

\* chatStore.js:13
clearMessages(state) ==
    [state EXCEPT !.messages = <<>>]

(* walletStore.js *)

\* a setter that merges into the record it already holds
setWalletMerges(state, wallet) ==
    IF state.wallet # Null /\ wallet # Null
    THEN [state EXCEPT !.wallet = [address |-> wallet.address, network |-> @.network],
                       !.isLoading = FALSE]
    ELSE [state EXCEPT !.wallet = wallet, !.isLoading = FALSE]

\* walletStore.js:7 -- note that setWallet also resets isLoading
setWallet(state, wallet) ==
    [state EXCEPT !.wallet = wallet, !.isLoading = FALSE]

\* walletStore.js:9
setWalletLoading(state, isLoading) ==
    [state EXCEPT !.isLoading = isLoading]

clearWalletKeepsLoading(state) ==
    [state EXCEPT !.wallet = Null]

\* walletStore.js:11
clearWallet(state) ==
    [state EXCEPT !.wallet = Null, !.isLoading = FALSE]

----------------------------------------------------------------------------
(* The wallet surface: components/WalletDisplay.jsx *)

\* a component that tests `!wallet` before `isLoading`
WalletDisplayWalletFirst(state, copied) ==
    IF state.wallet = Null THEN [shows |-> "noWallet"]
    ELSE IF state.isLoading THEN [shows |-> "loading"]
    ELSE [shows |-> "wallet", address |-> state.wallet.address,
          network |-> state.wallet.network, copied |-> copied]

\* WalletDisplay.jsx:5-68 -- what the component returns for the store state
\* it reads (line 5) and its own `copied` flag (line 6): the loading pill
\* (14-27), the "No wallet" pill (29-35), or the wallet badge (37-68)
WalletDisplay(state, copied) ==
    IF state.isLoading THEN [shows |-> "loading"]
    ELSE IF state.wallet = Null THEN [shows |-> "noWallet"]
    ELSE [shows |-> "wallet", address |-> state.wallet.address,
          network |-> state.wallet.network, copied |-> copied]

----------------------------------------------------------------------------
(* The message formatter: components/ChatMessage.jsx *)

\* A text is a sequence of characters.  The markup a replacement inserts is
\* kept as whole strings (one sequence element each): none of them contains
\* "0x", and each begins and ends with a character outside [A-Za-z0-9_], so a
\* later regular expression can neither match inside one nor find a word
\* character at its edge.

\* ChatMessage.jsx:7-8 -- the class [a-fA-F0-9]
HexDigits ==
    {"0", "1", "2", "3", "4", "5", "6", "7", "8", "9",
     "a", "b", "c", "d", "e", "f", "A", "B", "C", "D", "E", "F"}

\* ChatMessage.jsx:8 -- the characters \b counts as word characters
WordChars ==
    HexDigits \cup
    {"g", "h", "i", "j", "k", "l", "m", "n", "o", "p", "q", "r", "s", "t",
     "u", "v", "w", "x", "y", "z",
     "G", "H", "I", "J", "K", "L", "M", "N", "O", "P", "Q", "R", "S", "T",
     "U", "V", "W", "X", "Y", "Z", "_"}

\* ChatMessage.jsx:7 -- {64}
TxHashLen == 64

\* ChatMessage.jsx:8 -- {40}
AddressLen == 40

\* ChatMessage.jsx:11 -- the markup before ${match} in the link
AnchorOpen == "<a href=\"https://sepolia.basescan.org/tx/"

\* ChatMessage.jsx:11-12 -- the markup between ${match} and the label
AnchorAttrs == "\" target=\"_blank\" rel=\"noopener noreferrer\" class=\"text-defi-lavender hover:text-defi-lavender-light underline decoration-dotted underline-offset-2 transition-colors inline-flex items-center gap-1\">\n        "

\* ChatMessage.jsx:12-14 -- the markup after the label
AnchorClose == "\n        <svg class=\"w-3 h-3\" fill=\"none\" stroke=\"currentColor\" viewBox=\"0 0 24 24\"><path stroke-linecap=\"round\" stroke-linejoin=\"round\" stroke-width=\"2\" d=\"M10 6H6a2 2 0 00-2 2v10a2 2 0 002 2h10a2 2 0 002-2v-4M14 4h6m0 0v6m0-6L10 14\" /></svg>\n      </a>"

\* ChatMessage.jsx:18 -- the markup around the address label
CodeOpen == "<code class=\"bg-defi-bg-lighter/80 px-2 py-0.5 rounded text-sm text-defi-lavender border border-defi-border/50 font-mono\">"
CodeClose == "</code>"

\* ChatMessage.jsx:12,18 -- the `...` between the two halves of a label
Dots == <<".", ".", ".">>

\* String.prototype.slice(begin, end), begin possibly negative
slice(s, begin, end) ==
    LET from == IF begin < 0
                THEN (IF Len(s) + begin < 0 THEN 0 ELSE Len(s) + begin)
                ELSE (IF begin > Len(s) THEN Len(s) ELSE begin)
        to == IF end > Len(s) THEN Len(s) ELSE end
    IN SubSeq(s, from + 1, to)

\* the literal `0x` at position i
startsWith0x(text, i) ==
    /\ i + 1 <= Len(text)
    /\ text[i] = "0"
    /\ text[i + 1] = "x"

\* [a-fA-F0-9]{n} at position i
isHexRun(text, i, n) ==
    /\ i + n - 1 <= Len(text)
    /\ \A k \in i..(i + n - 1) : text[k] \in HexDigits

isWordChar(text, i) == i \in DOMAIN text /\ text[i] \in WordChars

\* \b between positions i - 1 and i
wordBoundary(text, i) == isWordChar(text, i - 1) # isWordChar(text, i)

\* ChatMessage.jsx:7 -- /(0x[a-fA-F0-9]{64})/ matches at position i
txHashRegex(text, i) ==
    /\ startsWith0x(text, i)
    /\ isHexRun(text, i + 2, TxHashLen)

\* an address pattern without the closing \b
addressRegexOpenEnded(text, i) ==
    /\ wordBoundary(text, i)
    /\ startsWith0x(text, i)
    /\ isHexRun(text, i + 2, AddressLen)

\* ChatMessage.jsx:8 -- /\b(0x[a-fA-F0-9]{40})\b/ matches at position i
addressRegex(text, i) ==
    /\ wordBoundary(text, i)
    /\ startsWith0x(text, i)
    /\ isHexRun(text, i + 2, AddressLen)
    /\ wordBoundary(text, i + 2 + AddressLen)

\* ChatMessage.jsx:10-15 -- the replacement for a transaction hash
txHashLink(match) ==
    <<AnchorOpen>> \o match \o <<AnchorAttrs>>
    \o slice(match, 0, 10) \o Dots \o slice(match, -8, Len(match))
    \o <<AnchorClose>>

\* ChatMessage.jsx:17-19 -- the replacement for an address
addressCode(match) ==
    <<CodeOpen>>
    \o slice(match, 0, 8) \o Dots \o slice(match, -6, Len(match))
    \o <<CodeClose>>

\* the leftmost of a non-empty set of positions
leftmost(positions) == CHOOSE k \in positions : \A l \in positions : k <= l

\* ChatMessage.jsx:10 -- text.replace(txHashRegex, ...) from position i on:
\* the leftmost match is replaced and the search resumes right after it
RECURSIVE replaceTxHash(_, _)
replaceTxHash(text, i) ==
    LET found == {k \in i..Len(text) : txHashRegex(text, k)}
    IN IF found = {} THEN SubSeq(text, i, Len(text))
       ELSE LET k == leftmost(found)
            IN SubSeq(text, i, k - 1)
               \o txHashLink(SubSeq(text, k, k + 1 + TxHashLen))
               \o replaceTxHash(text, k + 2 + TxHashLen)

\* ChatMessage.jsx:17 -- formatted.replace(addressRegex, ...) from position i on
RECURSIVE replaceAddress(_, _)
replaceAddress(text, i) ==
    LET found == {k \in i..Len(text) : addressRegex(text, k)}
    IN IF found = {} THEN SubSeq(text, i, Len(text))
       ELSE LET k == leftmost(found)
            IN SubSeq(text, i, k - 1)
               \o addressCode(SubSeq(text, k, k + 1 + AddressLen))
               \o replaceAddress(text, k + 2 + AddressLen)

\* ChatMessage.jsx:6-22
formatMessage(text) == replaceAddress(replaceTxHash(text, 1), 1)

\* hex runs cycle through digits and both letter cases
HexCycle ==
    <<"0", "1", "2", "3", "4", "5", "6", "7", "8", "9", "a", "B", "c", "D", "e", "F">>

hexRun(n) == [k \in 1..n |-> HexCycle[((k - 1) % Len(HexCycle)) + 1]]

\* `0x` followed by n hex characters
Token(n) == <<"0", "x">> \o hexRun(n)

Prefixes == { <<>>, <<"t", "x", " ">>, <<"g">>, <<"\n">>, <<"-">> }
Suffixes == { <<>>, <<" ", "o", "k">>, <<"g">>, <<"\n">>, <<".">> }

\* one token of every length up to MaxRun, in every surrounding
SingleTokenTexts ==
    { p \o Token(n) \o s : p \in Prefixes, n \in 0..MaxRun, s \in Suffixes }

\* a token of address or hash length with one character that is not a hex digit
BrokenTexts ==
    { p \o <<"0", "x">> \o hexRun(k) \o <<c>> \o hexRun(n - k - 1) :
        p \in {<<>>, <<" ">>}, n \in {AddressLen, TxHashLen},
        k \in {1, 20, 39}, c \in {"g", "-", "x"} }

\* two tokens in one text
PairTexts ==
    { Token(m) \o sep \o Token(n) \o s :
        m \in {AddressLen, TxHashLen, TxHashLen + 1},
        n \in {AddressLen, TxHashLen, TxHashLen + 1},
        sep \in {<<>>, <<" ">>, <<",", "\n", " ">>},
        s \in {<<>>, <<"!">>} }

PlainTexts == { <<>>, <<"h", "i">>, <<"0", "x">>, <<" ", "o", "k", "\n">> }

\* ChatMessage.jsx:6,40 -- the message contents formatMessage is applied to
Texts == SingleTokenTexts \cup BrokenTexts \cup PairTexts \cup PlainTexts

----------------------------------------------------------------------------
(* Last-event records *)

Event(kind, message, response, wallet) ==
    [kind |-> kind, message |-> message, response |-> response, wallet |-> wallet]

\* an accepted submit event also records what the textarea held
SubmitEvent(input, message) ==
    [kind |-> "submitAccepted", message |-> message, response |-> "", wallet |-> Null,
     input |-> input]

RemoveAt(s, i) == SubSeq(s, 1, i - 1) \o SubSeq(s, i + 1, Len(s))

----------------------------------------------------------------------------
Init ==
    /\ chatStore = [messages |-> <<>>, isLoading |-> FALSE]
    /\ walletStore = [wallet |-> Null, isLoading |-> FALSE]
    /\ fetchWallet = "notStarted"
    /\ handleSend = <<>>
    /\ sendCalls = 0
    /\ firstDone = "none"
    /\ ev = Event("init", <<>>, "", Null)
    /\ localStorage \in {NoItem, newSessionId(1, "k3j9")}
    /\ sessionId = NoItem
    /\ returned = {}
    /\ removed = NoItem
    /\ requests = <<>>

\* App.jsx:12,17-21,32 -- the first render, then the mount effect runs
\* fetchWallet up to its await
Mount ==
    /\ fetchWallet = "notStarted"
    /\ render
    /\ UNCHANGED requests
    /\ walletStore' = setWalletLoading(walletStore, TRUE)
    /\ fetchWallet' = "awaiting"
    /\ ev' = Event("mount", <<>>, "", Null)
    /\ UNCHANGED <<chatStore, handleSend, sendCalls, firstDone>>

disabledNever == FALSE

\* an input that is also locked while the wallet loads
disabledWhileWalletLoads == chatStore.isLoading \/ walletStore.isLoading

\* App.jsx:176 -- the `disabled` prop of ChatInput is the chat busy flag
disabled == chatStore.isLoading

\* App.jsx:39-44 -- handleSend(message) up to `await sendMessage(...)`;
\* `wallet` is the value App rendered with (App.jsx:14), kept by the closure
handleSendStart(message) ==
    /\ chatStore' = setLoading(addMessage(chatStore, [role |-> "user", content |-> message]), TRUE)
    /\ handleSend' = Append(handleSend, [message |-> message, wallet |-> walletStore.wallet])
    /\ sendCalls' = sendCalls + 1
    /\ requests' = Append(requests, [session_id |-> sessionId, message |-> message])
    /\ render
    /\ UNCHANGED <<walletStore, fetchWallet, firstDone>>

\* a submit handler without the `input.trim()` test
handleSubmitSendsBlank(input) ==
    /\ fetchWallet # "notStarted"
    /\ IF ~disabled
       THEN /\ sendCalls < MaxSends
            /\ handleSendStart(trim(input))
            /\ ev' = SubmitEvent(input, trim(input))
       ELSE /\ ev' = Event("submitIgnored", input, "", Null)
            /\ UNCHANGED <<chatStore, walletStore, fetchWallet, handleSend, sendCalls, firstDone>>
            /\ UNCHANGED <<sessionVars, requests>>

\* ChatInput.jsx:6-12 -- a submit event with `input` in the textarea
handleSubmit(input) ==
    /\ fetchWallet # "notStarted"
    /\ IF trim(input) # <<>> /\ ~disabled
       THEN /\ sendCalls < MaxSends
            /\ handleSendStart(trim(input))
            /\ ev' = SubmitEvent(input, trim(input))
       ELSE /\ ev' = Event("submitIgnored", input, "", Null)
            /\ UNCHANGED <<chatStore, walletStore, fetchWallet, handleSend, sendCalls, firstDone>>
            /\ UNCHANGED <<sessionVars, requests>>

\* a reconciliation test without the `response.wallet &&` part
walletDiffersNoPresenceTest(wallet, response) ==
    \/ wallet = Null
    \/ response.wallet = Null
    \/ wallet.address # response.wallet.address

\* App.jsx:48 -- the reconciliation test, on the closure's `wallet`
walletDiffers(wallet, response) ==
    /\ response.wallet # Null
    /\ (wallet = Null \/ wallet.address # response.wallet.address)

\* App.jsx:44-50,57-59 -- sendMessage resolved with `response`: the rest of
\* the try block, then the finally block
handleSendResolve(i, response) ==
    /\ i \in DOMAIN handleSend
    /\ chatStore' = setLoading(addMessage(chatStore, [role |-> "assistant", content |-> response.response]), FALSE)
    /\ walletStore' = IF walletDiffers(handleSend[i].wallet, response)
                      THEN setWallet(walletStore, response.wallet)
                      ELSE walletStore
    /\ handleSend' = RemoveAt(handleSend, i)
    /\ firstDone' = IF response.wallet # Null /\ fetchWallet = "awaiting" THEN "send"
                    ELSE IF firstDone = "fetch" THEN "none"
                    ELSE firstDone
    /\ ev' = Event("sendResolved", handleSend[i].message, response.response, response.wallet)
    /\ render
    /\ UNCHANGED <<fetchWallet, sendCalls, requests>>

\* a catch block that calls sendMessage again instead of reporting
handleSendRejectRetries(i) ==
    /\ i \in DOMAIN handleSend
    /\ IF sendCalls < MaxSends
       THEN /\ sendCalls' = sendCalls + 1
            /\ UNCHANGED <<chatStore, handleSend>>
       ELSE /\ chatStore' = setLoading(addMessage(chatStore, [role |-> "assistant", content |-> ErrorContent]), FALSE)
            /\ handleSend' = RemoveAt(handleSend, i)
            /\ UNCHANGED sendCalls
    /\ firstDone' = IF firstDone = "fetch" THEN "none" ELSE firstDone
    /\ ev' = Event("sendRejected", handleSend[i].message, "", Null)
    /\ render
    /\ UNCHANGED <<walletStore, fetchWallet, requests>>

\* a catch block that only logs the error
handleSendRejectSilent(i) ==
    /\ i \in DOMAIN handleSend
    /\ chatStore' = setLoading(chatStore, FALSE)
    /\ handleSend' = RemoveAt(handleSend, i)
    /\ firstDone' = IF firstDone = "fetch" THEN "none" ELSE firstDone
    /\ ev' = Event("sendRejected", handleSend[i].message, "", Null)
    /\ render
    /\ UNCHANGED <<walletStore, fetchWallet, sendCalls, requests>>

\* App.jsx:51-59 -- sendMessage rejected: the catch block, then the finally block
handleSendReject(i) ==
    /\ i \in DOMAIN handleSend
    /\ chatStore' = setLoading(addMessage(chatStore, [role |-> "assistant", content |-> ErrorContent]), FALSE)
    /\ handleSend' = RemoveAt(handleSend, i)
    /\ firstDone' = IF firstDone = "fetch" THEN "none" ELSE firstDone
    /\ ev' = Event("sendRejected", handleSend[i].message, "", Null)
    /\ render
    /\ UNCHANGED <<walletStore, fetchWallet, sendCalls, requests>>

\* App.jsx:21-24,27-29 -- getWallet resolved with `data`
fetchWalletResolve(data) ==
    /\ fetchWallet = "awaiting"
    /\ walletStore' = setWalletLoading(IF data.wallet # Null
                                       THEN setWallet(walletStore, data.wallet)
                                       ELSE walletStore,
                                       FALSE)
    /\ fetchWallet' = "done"
    /\ firstDone' = IF data.wallet # Null /\ handleSend # <<>> THEN "fetch" ELSE "none"
    /\ ev' = Event("fetchResolved", <<>>, "", data.wallet)
    /\ render
    /\ UNCHANGED <<chatStore, handleSend, sendCalls, requests>>

\* a catch block that forgets the wallet
fetchWalletRejectClears ==
    /\ fetchWallet = "awaiting"
    /\ walletStore' = [wallet |-> Null, isLoading |-> FALSE]
    /\ fetchWallet' = "done"
    /\ firstDone' = "none"
    /\ ev' = Event("fetchRejected", <<>>, "", Null)
    /\ render
    /\ UNCHANGED <<chatStore, handleSend, sendCalls, requests>>

\* a finally block that calls the chat store's setLoading instead of
\* setWalletLoading
fetchWalletRejectReleasesChat ==
    /\ fetchWallet = "awaiting"
    /\ chatStore' = setLoading(chatStore, FALSE)
    /\ fetchWallet' = "done"
    /\ firstDone' = "none"
    /\ ev' = Event("fetchRejected", <<>>, "", Null)
    /\ render
    /\ UNCHANGED <<walletStore, handleSend, sendCalls, requests>>

\* App.jsx:25-29 -- getWallet rejected
fetchWalletReject ==
    /\ fetchWallet = "awaiting"
    /\ walletStore' = setWalletLoading(walletStore, FALSE)
    /\ fetchWallet' = "done"
    /\ firstDone' = "none"
    /\ ev' = Event("fetchRejected", <<>>, "", Null)
    /\ render
    /\ UNCHANGED <<chatStore, handleSend, sendCalls, requests>>

\* api.js:10-17 -- payloads POST /chat can return
ChatPayloads == [response : Responses, wallet : WalletOrNull]

\* api.js:19-22 -- payloads GET /wallet/{session_id} can return
WalletPayloads == [wallet : WalletOrNull]

Submit == \E input \in Inputs : handleSubmit(input)
SendResolved == \E i \in DOMAIN handleSend, response \in ChatPayloads : handleSendResolve(i, response)
SendRejected == \E i \in DOMAIN handleSend : handleSendReject(i)
FetchResolved == \E data \in WalletPayloads : fetchWalletResolve(data)

Next ==
    \/ Mount
    \/ Submit
    \/ SendResolved
    \/ SendRejected
    \/ FetchResolved
    \/ fetchWalletReject

Spec == Init /\ [][Next]_vars

\* every call in flight is eventually answered by the gateway (api.js: axios
\* resolves or rejects each request)
FairSpec ==
    /\ Spec
    /\ WF_vars(SendResolved \/ SendRejected)
    /\ WF_vars(FetchResolved \/ fetchWalletReject)

----------------------------------------------------------------------------
(* The session identity provider driven directly: any sequence of            *)
(* getSessionId() and clearSession() calls (session.js)                      *)

orchestratorVars == <<fetchWallet, handleSend, sendCalls, firstDone, requests>>

GetSessionId ==
    /\ getSessionId
    /\ ev' = Event("getSessionId", <<>>, IF localStorage = NoItem THEN "missing" ELSE "stored", Null)
    /\ UNCHANGED <<chatStore, walletStore, orchestratorVars>>

ClearSession ==
    /\ clearSession
    /\ ev' = Event("clearSession", <<>>, "", Null)
    /\ UNCHANGED <<chatStore, walletStore, orchestratorVars>>

SessionNext ==
    \/ GetSessionId
    \/ ClearSession

----------------------------------------------------------------------------
(* The two stores driven directly: any sequence of their operations          *)
(* (chatStore.js, walletStore.js)                                            *)

\* Message { role, content } values a caller can append
Messages ==
    { [role |-> "user", content |-> <<"a">>],
      [role |-> "assistant", content |-> "hello"] }

AddMessage(message) ==
    /\ Len(chatStore.messages) < MaxLog
    /\ chatStore' = addMessage(chatStore, message)
    /\ ev' = Event("addMessage", <<>>, "", Null)
    /\ UNCHANGED <<walletStore, orchestratorVars, sessionVars>>

SetLoading(loading) ==
    /\ chatStore' = setLoading(chatStore, loading)
    /\ ev' = Event("setLoading", <<>>, "", Null)
    /\ UNCHANGED <<walletStore, orchestratorVars, sessionVars>>

ClearMessages ==
    /\ chatStore' = clearMessages(chatStore)
    /\ ev' = Event("clearMessages", <<>>, IF chatStore.messages = <<>> THEN "empty" ELSE "nonempty", Null)
    /\ UNCHANGED <<walletStore, orchestratorVars, sessionVars>>

SetWallet(wallet) ==
    /\ walletStore' = setWallet(walletStore, wallet)
    /\ ev' = Event("setWallet", <<>>, "", wallet)
    /\ UNCHANGED <<chatStore, orchestratorVars, sessionVars>>

SetWalletLoading(isLoading) ==
    /\ walletStore' = setWalletLoading(walletStore, isLoading)
    /\ ev' = Event("setWalletLoading", <<>>, "", Null)
    /\ UNCHANGED <<chatStore, orchestratorVars, sessionVars>>

ClearWallet ==
    /\ walletStore' = clearWallet(walletStore)
    /\ ev' = Event("clearWallet", <<>>, "", walletStore.wallet)
    /\ UNCHANGED <<chatStore, orchestratorVars, sessionVars>>

StoreNext ==
    \/ \E message \in Messages : AddMessage(message)
    \/ \E loading \in BOOLEAN : SetLoading(loading)
    \/ ClearMessages
    \/ \E wallet \in WalletOrNull : SetWallet(wallet)
    \/ \E isLoading \in BOOLEAN : SetWalletLoading(isLoading)
    \/ ClearWallet

\* the leaf components (session identity provider, conversation store,
\* wallet store) under an arbitrary caller
LeafNext ==
    \/ SessionNext
    \/ StoreNext

LeafSpec == Init /\ [][LeafNext]_vars

----------------------------------------------------------------------------
(* ChatMessage applying formatMessage to a message content *)

\* a message with content `text` is about to be rendered
FormatInit ==
    /\ chatStore = [messages |-> <<>>, isLoading |-> FALSE]
    /\ walletStore = [wallet |-> Null, isLoading |-> FALSE]
    /\ fetchWallet = "notStarted"
    /\ handleSend = <<>>
    /\ sendCalls = 0
    /\ firstDone = "none"
    /\ \E text \in Texts : ev = Event("message", text, <<>>, Null)
    /\ localStorage = NoItem
    /\ sessionId = NoItem
    /\ returned = {}
    /\ removed = NoItem
    /\ requests = <<>>

\* ChatMessage.jsx:40 -- formatMessage(message.content)
FormatMessage ==
    /\ ev.kind = "message"
    /\ ev' = Event("formatMessage", ev.message, formatMessage(ev.message), Null)
    /\ UNCHANGED <<chatStore, walletStore, fetchWallet, handleSend, sendCalls, firstDone>>
    /\ UNCHANGED <<sessionVars, requests>>

FormatNext == FormatMessage

FormatSpec == FormatInit /\ [][FormatNext]_vars

----------------------------------------------------------------------------
(* Step and state vocabulary for the properties *)

messages == chatStore.messages
Last(s) == s[Len(s)]
UserMessage(t) == [role |-> "user", content |-> t]
AssistantMessage(r) == [role |-> "assistant", content |-> r]

SubmitKinds == {"submitAccepted", "submitIgnored"}
ChatKinds == SubmitKinds \cup {"sendResolved", "sendRejected"}
FetchKinds == {"mount", "fetchResolved", "fetchRejected"}

----------------------------------------------------------------------------
\* C1: while the chat busy flag is true a submit attempt changes neither the
\* conversation log, nor the set of sendMessage calls in flight, nor the
\* wallet store; and at most one sendMessage call is ever in flight.
C1_BusySubmitIsNoOp ==
    /\ [](Len(handleSend) <= 1)
    /\ [][(chatStore.isLoading /\ ev'.kind \in SubmitKinds) =>
            /\ chatStore'.messages = chatStore.messages
            /\ handleSend' = handleSend
            /\ sendCalls' = sendCalls
            /\ walletStore' = walletStore]_vars

\* a non-blank submit was attempted while a sendMessage call was in flight
C1_Witness ==
    /\ ev.kind = "submitIgnored"
    /\ trim(ev.message) # <<>>
    /\ chatStore.isLoading
    /\ Len(handleSend) = 1

\* C2: when sendMessage fails for the accepted text t, the log ends with
\* {user, t} then {assistant, fixed error text} (the step appends exactly the
\* error entry after the user entry), the chat busy flag is false afterwards,
\* the wallet store is unchanged, and no further sendMessage call is made.
C2_SendFailure ==
    [][ev'.kind = "sendRejected" =>
        /\ messages # <<>>
        /\ Last(messages) = UserMessage(ev'.message)
        /\ chatStore'.messages = Append(messages, AssistantMessage(ErrorContent))
        /\ ~chatStore'.isLoading
        /\ walletStore' = walletStore
        /\ sendCalls' = sendCalls
        /\ handleSend' = <<>>]_vars

\* a send failed while a wallet was cached and the wallet fetch still ran
C2_Witness ==
    /\ ev.kind = "sendRejected"
    /\ Last(messages) = AssistantMessage(ErrorContent)
    /\ walletStore.wallet # Null
    /\ fetchWallet = "awaiting"

\* C3: a completed gateway call (reply or error) leaves the chat busy flag
\* false, and under fair gateway completion a true chat busy flag always
\* eventually becomes false.
C3_BusyReleased ==
    /\ [][ev'.kind \in {"sendResolved", "sendRejected"} => ~chatStore'.isLoading]_vars
    /\ (chatStore.isLoading ~> ~chatStore.isLoading)

\* the second accepted submission has been answered and the flag is down
C3_Witness ==
    /\ ev.kind \in {"sendResolved", "sendRejected"}
    /\ ~chatStore.isLoading
    /\ sendCalls = 2
    /\ handleSend = <<>>

\* C4: while a call is in flight the log already ends with its user entry;
\* when it succeeds with {response: r, wallet: w} and no wallet is cached,
\* the step appends {assistant, r} right after {user, t} and the wallet store
\* then holds w.
C4_SendSuccess ==
    /\ [](handleSend # <<>> => messages # <<>> /\ Last(messages) = UserMessage(handleSend[1].message))
    /\ [][(ev'.kind = "sendResolved" /\ ev'.wallet # Null /\ walletStore.wallet = Null) =>
            /\ Last(messages) = UserMessage(ev'.message)
            /\ chatStore'.messages = Append(messages, AssistantMessage(ev'.response))
            /\ walletStore'.wallet = ev'.wallet]_vars

\* the first reply brought a wallet while none was cached
C4_Witness ==
    /\ ev.kind = "sendResolved"
    /\ ev.wallet # Null
    /\ sendCalls = 1
    /\ fetchWallet = "awaiting"
    /\ walletStore.wallet = ev.wallet
    /\ messages = <<UserMessage(ev.message), AssistantMessage(ev.response)>>

\* C5: a successful reply with a wallet, processed while the wallet store
\* holds null or a record with another address, leaves the reply's wallet in
\* the wallet store.
C5_ReplyWalletReplacesDifferent ==
    [][(/\ ev'.kind = "sendResolved"
        /\ ev'.wallet # Null
        /\ (walletStore.wallet = Null \/ walletStore.wallet.address # ev'.wallet.address)) =>
        walletStore'.wallet = ev'.wallet]_vars

\* C6: when the wallet fetch and a chat submission overlap and both complete
\* with a wallet, the wallet store holds the wallet of the later completion.
C6_LastCompletionWins ==
    [][/\ (ev'.kind = "sendResolved" /\ ev'.wallet # Null /\ firstDone = "fetch") =>
            walletStore'.wallet = ev'.wallet
       /\ (ev'.kind = "fetchResolved" /\ ev'.wallet # Null /\ firstDone = "send") =>
            walletStore'.wallet = ev'.wallet]_vars

\* C7: after the wallet fetch succeeds without a wallet, the wallet store's
\* wallet is null and its busy flag false, and the log did not grow.
C7_FetchNoWalletClears ==
    [][(ev'.kind = "fetchResolved" /\ ev'.wallet = Null) =>
        /\ walletStore'.wallet = Null
        /\ ~walletStore'.isLoading
        /\ chatStore'.messages = chatStore.messages]_vars

\* C8: when the wallet fetch fails, the wallet record is unchanged, the
\* wallet busy flag is false afterwards, and the log and the chat busy flag
\* are unchanged.
C8_FetchFailure ==
    [][ev'.kind = "fetchRejected" =>
        /\ walletStore'.wallet = walletStore.wallet
        /\ ~walletStore'.isLoading
        /\ chatStore'.messages = chatStore.messages
        /\ chatStore'.isLoading = chatStore.isLoading]_vars

\* the fetch failed while a wallet was cached and a send was in flight
C8_Witness ==
    /\ ev.kind = "fetchRejected"
    /\ walletStore.wallet # Null
    /\ ~walletStore.isLoading
    /\ chatStore.isLoading

\* C9: no step of the chat-submission path changes the wallet busy flag and
\* no step of the wallet-fetch path changes the chat busy flag.
C9_DisjointBusyFlags ==
    [][/\ ev'.kind \in ChatKinds => walletStore'.isLoading = walletStore.isLoading
       /\ ev'.kind \in FetchKinds => chatStore'.isLoading = chatStore.isLoading]_vars

\* C10: a wallet fetch is in flight exactly when the wallet busy flag is true.
C10_WalletBusyIffFetching ==
    (fetchWallet = "awaiting") <=> walletStore.isLoading

----------------------------------------------------------------------------
IsPrefix(s, t) == Len(s) <= Len(t) /\ SubSeq(t, 1, Len(s)) = s
IsBlank(s) == \A i \in DOMAIN s : s[i] \in Whitespace

\* m is `input` without its leading and trailing whitespace
IsTrimOf(input, m) ==
    \E i \in 0..Len(input), j \in 0..Len(input) :
        /\ m = SubSeq(input, i + 1, j)
        /\ \A k \in 1..i : input[k] \in Whitespace
        /\ \A k \in (j + 1)..Len(input) : input[k] \in Whitespace
        /\ m # <<>> => (m[1] \notin Whitespace /\ m[Len(m)] \notin Whitespace)

\* C11: the log follows submission order: the k-th user entry is the k-th
\* request's text, each request's assistant entry comes before the next user
\* entry, so roles alternate user, assistant, user, assistant.
C11_LogFollowsSubmissionOrder ==
    /\ \A i \in DOMAIN messages :
          messages[i].role = IF i % 2 = 1 THEN "user" ELSE "assistant"
    /\ \A k \in DOMAIN requests :
          /\ 2 * k - 1 \in DOMAIN messages
          /\ messages[2 * k - 1] = UserMessage(requests[k].message)
    /\ Len(messages) = IF handleSend = <<>> THEN 2 * Len(requests) ELSE 2 * Len(requests) - 1

\* two different texts were submitted and both were answered
C11_Witness ==
    /\ Len(messages) = 4
    /\ Len(requests) = 2
    /\ requests[1].message # requests[2].message
    /\ handleSend = <<>>

\* C12: every orchestrator step (submit, reply, send failure, wallet-fetch
\* step) keeps the previous log as a prefix of the new one, and an accepted
\* submit appends its entry even when the same text is already in the log.
C12_LogAppendOnly ==
    [][/\ ev'.kind \in ChatKinds \cup FetchKinds => IsPrefix(messages, chatStore'.messages)
       /\ ev'.kind = "submitAccepted" =>
            chatStore'.messages = Append(messages, UserMessage(ev'.message))]_vars

\* the same text was submitted twice and is in the log twice
C12_Witness ==
    /\ Len(messages) = 3
    /\ messages[1] = messages[3]
    /\ ev.kind = "submitAccepted"

\* C13: once the wallet fetch has completed, the wallet record changes only
\* in a step that processes a successful reply carrying a wallet; submits,
\* send failures and replies without a wallet leave it unchanged.
C13_WalletChangesOnlyByReply ==
    [][/\ (fetchWallet = "done" /\ walletStore'.wallet # walletStore.wallet) =>
            (ev'.kind = "sendResolved" /\ ev'.wallet # Null)
       /\ (\/ ev'.kind \in SubmitKinds \cup {"sendRejected"}
           \/ (ev'.kind = "sendResolved" /\ ev'.wallet = Null)) =>
            walletStore'.wallet = walletStore.wallet]_vars

\* after the fetch completed, the first reply put its wallet in the store
C13_Witness ==
    /\ fetchWallet = "done"
    /\ ev.kind = "sendResolved"
    /\ ev.wallet # Null
    /\ walletStore.wallet = ev.wallet
    /\ Len(messages) = 2

\* C14: a submit is ignored only when its input is blank or the chat busy
\* flag is true, whatever the wallet busy flag and the state of the wallet
\* fetch; so a send and the wallet fetch can be in flight together.
C14_SubmitNotGatedByFetch ==
    [][ev'.kind = "submitIgnored" => (IsBlank(ev'.message) \/ chatStore.isLoading)]_vars

\* a submission was accepted while the wallet fetch was in flight
C14_Witness ==
    /\ ev.kind = "submitAccepted"
    /\ fetchWallet = "awaiting"
    /\ walletStore.isLoading
    /\ handleSend # <<>>

\* C15: a submit attempt with an empty or whitespace-only input appends no
\* message, makes no sendMessage call and changes neither busy flag.
C15_BlankSubmitIgnored ==
    [][(ev'.kind \in SubmitKinds /\ IsBlank(ev'.message)) =>
        /\ chatStore' = chatStore
        /\ walletStore' = walletStore
        /\ handleSend' = handleSend
        /\ requests' = requests
        /\ sendCalls' = sendCalls]_vars

\* a whitespace-only input was submitted while the chat was idle
C15_Witness ==
    /\ ev.kind = "submitIgnored"
    /\ ev.message # <<>>
    /\ IsBlank(ev.message)
    /\ ~chatStore.isLoading

\* C16: between two clearSession() calls every getSessionId() call returns
\* the same value, that value is the stored one, and a stored value is not
\* overwritten by anything but clearSession().
C16_SessionIdStable ==
    /\ [](Cardinality(returned) <= 1 /\ (returned # {} => returned = {localStorage}))
    /\ [][(localStorage # NoItem /\ ev'.kind # "clearSession") =>
            localStorage' = localStorage]_vars

\* after a clearSession(), a later call found the id stored and returned it
C16_Witness ==
    /\ ev.kind = "getSessionId"
    /\ ev.response = "stored"
    /\ removed # NoItem
    /\ returned = {sessionId}
    /\ localStorage = sessionId

\* C17 (as stated): clearSession() removes the stored id, and the next
\* getSessionId() synthesizes an id different from the removed one, stores
\* it and returns it.
C17_FreshIdDiffers ==
    [][/\ ev'.kind = "clearSession" => localStorage' = NoItem
       /\ (ev'.kind = "getSessionId" /\ localStorage = NoItem /\ removed # NoItem) =>
            /\ sessionId' \in SessionIds
            /\ sessionId' # removed
            /\ localStorage' = sessionId']_vars

\* C17 (amended): clearSession() removes the stored id, and the next
\* getSessionId() synthesizes an id from the clock reading and the random
\* suffix, stores it and returns it.
C17_FreshIdStored ==
    [][/\ ev'.kind = "clearSession" => localStorage' = NoItem
       /\ (ev'.kind = "getSessionId" /\ localStorage = NoItem /\ removed # NoItem) =>
            /\ sessionId' \in SessionIds
            /\ localStorage' = sessionId']_vars

\* the first call after a clearSession() returned and stored another id
C17_Witness ==
    /\ ev.kind = "getSessionId"
    /\ ev.response = "missing"
    /\ removed # NoItem
    /\ sessionId # removed
    /\ localStorage = sessionId

\* C18: when the wallet fetch succeeds with a wallet, the wallet store then
\* holds exactly the fetched record and its busy flag is false.
C18_FetchedWalletReplaces ==
    [][(ev'.kind = "fetchResolved" /\ ev'.wallet # Null) =>
        walletStore' = [wallet |-> ev'.wallet, isLoading |-> FALSE]]_vars

\* the fetch brought a wallet after a chat round had been answered
C18_Witness ==
    /\ ev.kind = "fetchResolved"
    /\ ev.wallet # Null
    /\ walletStore.wallet = ev.wallet
    /\ Len(messages) >= 2

\* C19: clearMessages empties the log and leaves the chat busy flag and the
\* wallet store as they were.
C19_ClearMessagesFrame ==
    [][ev'.kind = "clearMessages" =>
        /\ chatStore'.messages = <<>>
        /\ chatStore'.isLoading = chatStore.isLoading
        /\ walletStore' = walletStore]_vars

\* a non-empty log was cleared while both busy flags were up
C19_Witness ==
    /\ ev.kind = "clearMessages"
    /\ ev.response = "nonempty"
    /\ messages = <<>>
    /\ chatStore.isLoading
    /\ walletStore.isLoading
    /\ walletStore.wallet # Null

\* C20: clearWallet sets the wallet to null and the wallet busy flag to
\* false, and leaves the chat store as it was.
C20_ClearWalletFrame ==
    [][ev'.kind = "clearWallet" =>
        /\ walletStore' = [wallet |-> Null, isLoading |-> FALSE]
        /\ chatStore' = chatStore]_vars

\* a held wallet was cleared while the chat store was busy with a log
C20_Witness ==
    /\ ev.kind = "clearWallet"
    /\ ev.wallet # Null
    /\ walletStore = [wallet |-> Null, isLoading |-> FALSE]
    /\ chatStore.isLoading
    /\ messages # <<>>

\* the number of hex digits in a row from position i on
hexRunLen(text, i) ==
    Cardinality({n \in 1..(Len(text) - i + 1) : isHexRun(text, i, n)})

\* the positions where a `0x` prefix stands
tokenStarts(text) == {i \in DOMAIN text : startsWith0x(text, i)}

\* no `0x` prefix of the text is followed by a hex run of length 40 or 64
NoWellFormedToken(text) ==
    \A i \in tokenStarts(text) : hexRunLen(text, i + 2) \notin {AddressLen, TxHashLen}

\* the link that stands for a transaction hash: the hash in the href, and
\* its first 10 and last 8 characters around the separator as the label
LinkFor(token) ==
    <<AnchorOpen>> \o token \o <<AnchorAttrs>>
    \o SubSeq(token, 1, 10) \o <<".", ".", ".">> \o SubSeq(token, Len(token) - 7, Len(token))
    \o <<AnchorClose>>

\* the inline code that stands for an address: its first 8 and last 6
\* characters around the separator
CodeFor(token) ==
    <<CodeOpen>>
    \o SubSeq(token, 1, 8) \o <<".", ".", ".">> \o SubSeq(token, Len(token) - 5, Len(token))
    \o <<CodeClose>>

\* `out` from position j on is `text` from position i on with some of its
\* `0x` tokens replaced by their link or inline code, and every other
\* character kept as it is and in order
RECURSIVE Preserves(_, _, _, _)
Preserves(text, i, out, j) ==
    LET markup == {k \in j..Len(out) : out[k] \in {AnchorOpen, CodeOpen}}
    IN IF markup = {}
       THEN SubSeq(out, j, Len(out)) = SubSeq(text, i, Len(text))
       ELSE LET k == leftmost(markup)
                at == i + (k - j)
                n == IF out[k] = AnchorOpen THEN TxHashLen ELSE AddressLen
                token == SubSeq(text, at, at + 1 + n)
                shown == IF out[k] = AnchorOpen THEN LinkFor(token) ELSE CodeFor(token)
            IN /\ at - 1 <= Len(text)
               /\ SubSeq(out, j, k - 1) = SubSeq(text, i, at - 1)
               /\ startsWith0x(text, at)
               /\ isHexRun(text, at + 2, n)
               /\ k + Len(shown) - 1 <= Len(out)
               /\ SubSeq(out, k, k + Len(shown) - 1) = shown
               /\ Preserves(text, at + Len(token), out, k + Len(shown))

\* C21: in every reachable state the wallet surface shows exactly one of the
\* loading indicator, the "No wallet" indicator and the wallet record, and
\* which one depends only on the stored wallet and the wallet busy flag:
\* loading iff the flag is up, "No wallet" iff the flag is down and no wallet
\* is held, the record iff the flag is down and a wallet is held.
C21_DisplayByWalletAndFlag ==
    \A copied \in BOOLEAN :
        LET shows == WalletDisplay(walletStore, copied).shows
        IN /\ shows \in {"loading", "noWallet", "wallet"}
           /\ shows = "loading" <=> walletStore.isLoading
           /\ shows = "noWallet" <=> (~walletStore.isLoading /\ walletStore.wallet = Null)
           /\ shows = "wallet" <=> (~walletStore.isLoading /\ walletStore.wallet # Null)

\* the fetch is in flight with no wallet held, and the surface shows loading
C21_Witness ==
    /\ ev.kind = "mount"
    /\ walletStore = [wallet |-> Null, isLoading |-> TRUE]
    /\ WalletDisplay(walletStore, FALSE) = [shows |-> "loading"]

C23_MalformedHexUnchanged ==
    (ev.kind = "formatMessage" /\ NoWellFormedToken(ev.message)) =>
        ev.response = ev.message

\* C24: formatMessage returns a text without a `0x`-prefixed hex run of
\* length 40 or 64 as it is, and in any text it keeps every character
\* outside the tokens it replaces unchanged and in order.
C24_OutsideTextPreserved ==
    ev.kind = "formatMessage" =>
        /\ NoWellFormedToken(ev.message) => ev.response = ev.message
        /\ Preserves(ev.message, 1, ev.response, 1)

\* C25: a successful chat reply whose wallet has the address of the wallet
\* the store holds when the reply is processed leaves the stored record as
\* it is, whatever the reply's network label, also when the wallet fetch
\* completed while the chat request was in flight.
C25_SameAddressReplyKeepsRecord ==
    [][(/\ ev'.kind = "sendResolved"
        /\ ev'.wallet # Null
        /\ walletStore.wallet # Null
        /\ walletStore.wallet.address = ev'.wallet.address) =>
        walletStore'.wallet = walletStore.wallet]_vars

\* C26: the chat busy flag is up exactly while a sendMessage call is in
\* flight; with the flag down the log has even length, with the flag up it
\* has odd length and ends with a user message; every completion of a call
\* appends exactly one assistant message.
C26_BusyIffInFlight ==
    /\ [](/\ chatStore.isLoading <=> handleSend # <<>>
          /\ ~chatStore.isLoading => Len(messages) % 2 = 0
          /\ chatStore.isLoading =>
                (Len(messages) % 2 = 1 /\ Last(messages).role = "user"))
    /\ [][ev'.kind \in {"sendResolved", "sendRejected"} =>
            /\ Len(chatStore'.messages) = Len(messages) + 1
            /\ Last(chatStore'.messages).role = "assistant"]_vars

\* the second submission is pending behind a completed round
C26_Witness ==
    /\ chatStore.isLoading
    /\ Len(handleSend) = 1
    /\ Len(messages) = 3
    /\ Last(messages).role = "user"

\* C27: while a sendMessage call is in flight, no step other than that
\* call's completion lowers the chat busy flag, accepts a submission or
\* changes the log: a call that never completes keeps the flag up and the
\* log at the pending user message.
C27_HungCallKeepsBusy ==
    [][(handleSend # <<>> /\ ev'.kind \notin {"sendResolved", "sendRejected"}) =>
        /\ chatStore' = chatStore
        /\ chatStore'.isLoading
        /\ handleSend' = handleSend
        /\ ev'.kind # "submitAccepted"]_vars

\* after the wallet fetch is over and the call is still pending, a submit
\* of real text was turned down
C27_Witness ==
    /\ handleSend # <<>>
    /\ fetchWallet = "done"
    /\ ev.kind = "submitIgnored"
    /\ ~IsBlank(ev.message)
    /\ chatStore.isLoading
    /\ Last(messages).role = "user"

\* C28: for every accepted submission the message posted to /chat is the
\* content of the user message appended to the log, it is the textarea's
\* input without leading and trailing whitespace, and the request carries
\* the session id getSessionId() returned; no user message in the log is
\* empty or blank.
C28_RequestMatchesSubmission ==
    /\ [][ev'.kind = "submitAccepted" =>
            LET req == Last(requests')
            IN /\ Len(requests') = Len(requests) + 1
               /\ Len(chatStore'.messages) = Len(messages) + 1
               /\ Last(chatStore'.messages) = UserMessage(req.message)
               /\ IsTrimOf(ev'.input, req.message)
               /\ req.session_id # NoItem
               /\ req.session_id \in returned
               /\ req.session_id = localStorage']_vars
    /\ [](\A k \in DOMAIN messages :
            messages[k].role = "user" => ~IsBlank(messages[k].content))

\* an input with whitespace on both sides was accepted
C28_Witness ==
    /\ ev.kind = "submitAccepted"
    /\ ev.input = <<" ", "a", " ">>
    /\ Last(requests) = [session_id |-> localStorage, message |-> <<"a">>]
    /\ Last(messages) = UserMessage(<<"a">>)

====
